---- MODULE Spec2Model ----
(***************************************************************************)
(* Model of xtask/src/cargo_commands.rs: the functions that construct      *)
(* CargoCommand values, hand them to command_parser, and fan a batch of    *)
(* them out over a rayon pool (cargo_example, run_test,                    *)
(* build_and_check_size) or loop over the workspace packages (cargo_test). *)
(*                                                                         *)
(* A behaviour of Spec is one call of one of these functions; a behaviour  *)
(* of SpecPair is a fan-out called twice with the same arguments, one of   *)
(* SpecRoundTrip is run_test called several times on one example.  An      *)
(* operation is identified by <<unit, stage>>: unit is the index of the    *)
(* example in `examples` (or of the package in the package list), stage 1  *)
(* is the first command_parser call of the closure body and stage 2 the    *)
(* second one (Qemu / ExampleSize).  command_parser and the types of       *)
(* argument_parsing are outside this file and are modelled from the        *)
(* specification of the dispatcher.                                        *)
(***************************************************************************)
EXTENDS Integers, Sequences, FiniteSets, TLC

\* ---------------------------------------------------------------- bounds
MaxExamples == 2
PoolSize == 2
MaxCalls == 3

\* ------------------------------------------------------------ value sets
Names == {"a", "b"}
Contents == {"o1", "o2"}
NoFile == "nofile"
Backends == {"Thumbv6", "Thumbv7"}
None == "None"

\* The package list of cargo_test, in the order of the array literal.
Packages ==
  <<"Rtic", "RticCommon", "RticMacros", "RticMonotonics", "RticSync", "RticTime">>

NumPackages == Len(Packages)
MaxUnits == IF MaxExamples > NumPackages THEN MaxExamples ELSE NumPackages
Units == 1 .. MaxUnits
Stages == {1, 2}
Keys == Units \X Stages

FanOutFns == {"cargo_example", "run_test", "build_and_check_size"}
SingleFns == {"cargo", "cargo_clippy", "cargo_format", "cargo_doc", "cargo_book"}
CompositeFns == {"run_test", "build_and_check_size"}
Terminal == {"Succeeded", "ToolFailed", "MismatchFailed"}
Failed == {"ToolFailed", "MismatchFailed"}

RECURSIVE SeqsUpTo(_, _)
SeqsUpTo(S, n) ==
  IF n = 0 THEN {<<>>}
  ELSE LET shorter == SeqsUpTo(S, n - 1)
       IN shorter \cup {Append(s, x) : s \in {t \in shorter : Len(t) = n - 1}, x \in S}

ExampleLists == SeqsUpTo(Names, MaxExamples)

VARIABLES
  fn,          \* the function of cargo_commands.rs that was called
  operation,   \* BuildOrCheck argument (cargo, cargo_example)
  backend,     \* Backends argument
  package,     \* PackageOpt.package argument: None or a package
  check_only,  \* bool argument of cargo_format
  examples,    \* &[String] argument of the fan-out functions
  overwrite,   \* bool argument of run_test
  artifact,    \* expected-output file of each example name (NoFile if absent)
  opState,     \* state of the operation <<unit, stage>>
  cmd,         \* the CargoCommand constructed for <<unit, stage>>
  passed,      \* the overwrite flag command_parser was called with
  ndisp,       \* how many times command_parser was called for <<unit, stage>>
  result,      \* what the external process of <<unit, stage>> produced
  log,         \* the errors written with error!("{err}")
  ret,         \* the function's return value: "none" while it runs
  artifact0,   \* the expected-output files as they were when the call began
  prev,        \* what an earlier call with the same arguments did, if any
  num_threads, \* the number of workers of the rayon pool
  history      \* what the earlier calls of a series of run_test calls did

vars == <<fn, operation, backend, package, check_only, examples, overwrite,
          artifact, opState, cmd, passed, ndisp, result, log, ret, artifact0,
          prev, num_threads, history>>

\* What no step of a call changes: its arguments, and the record of the
\* environment it runs in.
args == <<fn, operation, backend, package, check_only, examples, overwrite,
          artifact0, prev, num_threads, history>>

\* ------------------------------------------------ Backends (spec-modelled)
to_target(b) == IF b = "Thumbv6" THEN "thumbv6m-none-eabi" ELSE "thumbv7m-none-eabi"

to_rtic_feature(b) == IF b = "Thumbv6" THEN "thumbv6-backend" ELSE "thumbv7-backend"

\* Target::and_features: the flag of the target (written as the target
\* itself) followed by the given feature.
and_features(t, f) == <<t, f>>

\* ------------------------------------------------------------- commands
NoCmd ==
  [kind |-> None, cargoarg |-> None, example |-> None, package |-> None,
   target |-> None, features |-> None, mode |-> None]

\* The command of the first example, whatever the closure's item is.
FirstExampleCommand(example) ==
  [kind |-> IF operation = "Check" THEN "ExampleCheck" ELSE "ExampleBuild",
   cargoarg |-> "cargoarg", example |-> examples[1], package |-> None,
   target |-> to_target(backend),
   features |-> and_features(to_target(backend), to_rtic_feature(backend)),
   mode |-> "Release"]

\* cargo_example: the command built by the closure for one example.
ExampleCommand(example) ==
  [kind |-> IF operation = "Check" THEN "ExampleCheck" ELSE "ExampleBuild",
   cargoarg |-> "cargoarg", example |-> example, package |-> None,
   target |-> to_target(backend),
   features |-> and_features(to_target(backend), to_rtic_feature(backend)),
   mode |-> "Release"]

\* An ExampleBuild command for the Thumbv6 target, whatever the backend is.
QuietBuildCommandThumbv6(example) ==
  [kind |-> "ExampleBuild", cargoarg |-> "--quiet", example |-> example,
   package |-> None, target |-> to_target("Thumbv6"),
   features |-> and_features(to_target("Thumbv6"), to_rtic_feature(backend)),
   mode |-> "Release"]

\* run_test / build_and_check_size: the ExampleBuild command of the closure.
QuietBuildCommand(example) ==
  [kind |-> "ExampleBuild", cargoarg |-> "--quiet", example |-> example,
   package |-> None, target |-> to_target(backend),
   features |-> and_features(to_target(backend), to_rtic_feature(backend)),
   mode |-> "Release"]

\* A Qemu command that names the first example, whatever the item is.
FirstQemuCommand(example) ==
  [kind |-> "Qemu", cargoarg |-> "cargoarg", example |-> examples[1],
   package |-> None, target |-> to_target(backend),
   features |-> and_features(to_target(backend), to_rtic_feature(backend)),
   mode |-> "Release"]

\* run_test: the Qemu command of the closure.
QemuCommand(example) ==
  [kind |-> "Qemu", cargoarg |-> "cargoarg", example |-> example,
   package |-> None, target |-> to_target(backend),
   features |-> and_features(to_target(backend), to_rtic_feature(backend)),
   mode |-> "Release"]

\* build_and_check_size: the ExampleSize command of the closure.
ExampleSizeCommand(example) ==
  [kind |-> "ExampleSize", cargoarg |-> "cargoarg", example |-> example,
   package |-> None, target |-> to_target(backend),
   features |-> and_features(to_target(backend), to_rtic_feature(backend)),
   mode |-> "Release"]

\* package_feature_extractor (spec-modelled): the features of the selected
\* package for the backend; the flags of the packages are not told apart.
package_feature_extractor(t, p, b) == and_features(t, to_rtic_feature(b))

\* cargo: CargoCommand::Check or CargoCommand::Build.
CheckOrBuildCommand ==
  [kind |-> operation, cargoarg |-> "cargoarg", package |-> package,
   target |-> to_target(backend),
   features |-> package_feature_extractor(to_target(backend), package, backend),
   mode |-> "Release"]

\* cargo_clippy: CargoCommand::Clippy.
ClippyCommand ==
  [kind |-> "Clippy", cargoarg |-> "cargoarg", package |-> package,
   target |-> to_target(backend),
   features |-> package_feature_extractor(to_target(backend), package, backend)]

\* cargo_format: CargoCommand::Format.
FormatCommand ==
  [kind |-> "Format", cargoarg |-> "cargoarg", package |-> package,
   check_only |-> check_only]

\* cargo_doc: CargoCommand::Doc.
DocCommand ==
  [kind |-> "Doc", cargoarg |-> "cargoarg",
   features |-> and_features(to_target(backend), to_rtic_feature(backend)),
   arguments |-> "arguments"]

\* cargo_book: CargoCommand::Book.
BookCommand == [kind |-> "Book", arguments |-> "arguments"]

\* TestMetadata::match_package (spec-modelled): the test command of a package.
match_package(p, b) ==
  [kind |-> "Test", cargoarg |-> None, example |-> None, package |-> p,
   target |-> None, features |-> <<to_rtic_feature(b)>>, mode |-> None]

\* ------------------------------------------- command_parser (spec-modelled)
\* What the external process can produce: a nonzero exit ("fail") or a zero
\* exit with some captured output.  Only Qemu output is ever compared.
ToolResults(c) == IF c.kind = "Qemu" THEN {"fail"} \cup Contents ELSE {"fail", "o1"}

\* The outcome command_parser returns for command c, process result r.
Outcome(c, ow, r, art) ==
  IF r = "fail" THEN "ToolFailed"
  ELSE IF c.kind # "Qemu" THEN "Succeeded"
  ELSE IF ow THEN "Succeeded"
  ELSE IF art[c.example] = r THEN "Succeeded"
  ELSE "MismatchFailed"

\* The expected-output files after command_parser ran c with result r.
ArtifactAfter(c, ow, r, art) ==
  IF c.kind = "Qemu" /\ ow /\ r # "fail" THEN [art EXCEPT ![c.example] = r]
  ELSE art

\* The anyhow error command_parser returns: what failed and why.
ErrorOf(k, c, st) == [unit |-> k[1], stage |-> k[2], kind |-> c.kind, cause |-> st]

\* ------------------------------------------------------------------ Init
NoOps == [k \in Keys |-> "None"]
NoCmds == [k \in Keys |-> NoCmd]
NoFlags == [k \in Keys |-> FALSE]
NoCounts == [k \in Keys |-> 0]
NoResults == [k \in Keys |-> None]

NoPrev ==
  [valid |-> FALSE, dev |-> 0, opState |-> NoOps, cmd |-> NoCmds,
   passed |-> NoFlags, ndisp |-> NoCounts, result |-> NoResults, log |-> {},
   ret |-> "none", artifact |-> [n \in Names |-> NoFile]]

\* The expected-output files are read and written by run_test only: the
\* other functions start from a store with the same content under every name.
Stores == [Names -> Contents \cup {NoFile}]
UniformStores == {[n \in Names |-> c] : c \in Contents \cup {NoFile}}

PackageOpts == {None} \cup {Packages[i] : i \in 1 .. NumPackages}

InitCommon ==
  /\ backend \in Backends
  /\ num_threads = PoolSize
  /\ history = <<>>
  /\ artifact \in IF fn = "run_test" THEN Stores ELSE UniformStores
  /\ artifact0 = artifact
  /\ prev = NoPrev
  /\ opState = NoOps
  /\ cmd = NoCmds
  /\ passed = NoFlags
  /\ ndisp = NoCounts
  /\ result = NoResults
  /\ log = {}
  /\ ret = "none"

Init ==
  /\ \/ /\ fn = "cargo_example"
        /\ operation \in {"Check", "Build"}
        /\ examples \in ExampleLists
        /\ package = None
        /\ check_only = FALSE
        /\ overwrite = FALSE
     \/ /\ fn = "run_test"
        /\ operation = "Build"
        /\ examples \in ExampleLists
        /\ package = None
        /\ check_only = FALSE
        /\ overwrite \in BOOLEAN
     \/ /\ fn = "build_and_check_size"
        /\ operation = "Build"
        /\ examples \in ExampleLists
        /\ package = None
        /\ check_only = FALSE
        /\ overwrite = FALSE
     \/ /\ fn = "cargo_test"
        /\ operation = "Build"
        /\ examples = <<>>
        /\ package \in PackageOpts
        /\ overwrite = FALSE
        /\ check_only = FALSE
     \/ /\ fn = "cargo"
        /\ operation \in {"Check", "Build"}
        /\ examples = <<>>
        /\ package \in PackageOpts
        /\ overwrite = FALSE
        /\ check_only = FALSE
     \/ /\ fn = "cargo_clippy"
        /\ operation = "Build"
        /\ examples = <<>>
        /\ package \in PackageOpts
        /\ overwrite = FALSE
        /\ check_only = FALSE
     \/ /\ fn = "cargo_format"
        /\ operation = "Build"
        /\ examples = <<>>
        /\ package \in PackageOpts
        /\ overwrite = FALSE
        /\ check_only \in BOOLEAN
     \/ /\ fn \in {"cargo_doc", "cargo_book"}
        /\ operation = "Build"
        /\ examples = <<>>
        /\ package = None
        /\ overwrite = FALSE
        /\ check_only = FALSE
  /\ InitCommon

\* ----------------------------------------------------------- shared steps
NumUnits == IF fn = "cargo_test"
            THEN (IF package = None THEN NumPackages ELSE 1)
            ELSE IF fn \in SingleFns THEN 1
            ELSE Len(examples)

UnitDone(u) ==
  IF fn \in CompositeFns THEN opState[<<u, 2>>] \in Terminal
  ELSE opState[<<u, 1>>] \in Terminal

\* The closure for unit u is running on a worker of the pool.
UnitRunning(u) == opState[<<u, 1>>] # "None" /\ ~UnitDone(u)

\* A pool that takes no pending item once an error was logged.
FreeWorkerUntilError ==
  /\ Cardinality({u \in 1 .. NumUnits : UnitRunning(u)}) < num_threads
  /\ log = {}

\* A pool that starts the closure of every item at once.
WorkerPerItem == TRUE

\* The pool runs one closure per worker: a worker blocks in command_parser
\* until the process ends, so an unstarted unit needs a worker that runs none.
FreeWorker == Cardinality({u \in 1 .. NumUnits : UnitRunning(u)}) < num_threads

\* `let cmd = CargoCommand::...`
Construct(k, c) ==
  /\ opState' = [opState EXCEPT ![k] = "Constructed"]
  /\ cmd' = [cmd EXCEPT ![k] = c]

\* command_parser called again for an operation that failed.
DispatchOrRetry(k, ow) ==
  /\ opState[k] \in {"Constructed"} \cup Failed
  /\ opState' = [opState EXCEPT ![k] = "Dispatched"]
  /\ ndisp' = [ndisp EXCEPT ![k] = @ + 1]
  /\ passed' = [passed EXCEPT ![k] = ow]

\* The call of command_parser(globals, &cmd, ow): the process is started.
Dispatch(k, ow) ==
  /\ opState[k] = "Constructed"
  /\ opState' = [opState EXCEPT ![k] = "Dispatched"]
  /\ ndisp' = [ndisp EXCEPT ![k] = @ + 1]
  /\ passed' = [passed EXCEPT ![k] = ow]

\* A sink that keeps the last error only.
LogLastErr(k, st) == IF st \in Failed THEN {ErrorOf(k, cmd[k], st)} ELSE log

\* `if let Err(err) = ... { error!("{err}"); }`
LogIfErr(k, st) == IF st \in Failed THEN log \cup {ErrorOf(k, cmd[k], st)} ELSE log

\* The results the process of operation k may end with.  In a call repeated
\* to compare it with an earlier one, the processes of every unit but the
\* deviating one end as they did then.
ProcessResults(k) ==
  IF prev.valid /\ k[1] # prev.dev /\ prev.result[k] # None
  THEN {prev.result[k]}
  ELSE ToolResults(cmd[k])

\* An operation that fails whenever an error was logged before it ended.
FinishPoisoned(k, ow, r) ==
  [st |-> IF log # {} THEN "ToolFailed" ELSE Outcome(cmd[k], ow, r, artifact),
   art |-> ArtifactAfter(cmd[k], ow, r, artifact)]

\* A comparison that also records the captured output as the new expected
\* output, whatever the overwrite flag is.
FinishRecording(k, ow, r) ==
  [st |-> Outcome(cmd[k], ow, r, artifact),
   art |-> ArtifactAfter(cmd[k], TRUE, r, artifact)]

\* The process of operation k ends with result r: command_parser returns.
Finish(k, ow, r) ==
  [st |-> Outcome(cmd[k], ow, r, artifact),
   art |-> ArtifactAfter(cmd[k], ow, r, artifact)]

\* A join that gives up as soon as one operation has failed.
JoinedOrFailed ==
  \/ \A u \in 1 .. NumUnits : UnitDone(u)
  \/ \E k \in Keys : opState[k] \in Failed

\* rayon's for_each returns once the closure has returned for every item.
AllJoined == \A u \in 1 .. NumUnits : UnitDone(u)

Running(f) == fn = f /\ ret = "none"

\* ---------------------------------------------------------- cargo_example
\* A pool worker starts the closure for examples[u] and builds its command.
cargo_example_start(u) ==
  /\ Running("cargo_example")
  /\ u \in 1 .. Len(examples)
  /\ opState[<<u, 1>>] = "None"
  /\ FreeWorker
  /\ Construct(<<u, 1>>, ExampleCommand(examples[u]))
  /\ UNCHANGED <<args, artifact, passed, ndisp, result, log, ret>>

cargo_example_dispatch(u) ==
  /\ Running("cargo_example")
  /\ u \in 1 .. Len(examples)
  /\ Dispatch(<<u, 1>>, FALSE)
  /\ UNCHANGED <<args, artifact, cmd, result, log, ret>>

cargo_example_complete(u) ==
  /\ Running("cargo_example")
  /\ u \in 1 .. Len(examples)
  /\ opState[<<u, 1>>] = "Dispatched"
  /\ \E r \in ProcessResults(<<u, 1>>) :
       LET f == Finish(<<u, 1>>, passed[<<u, 1>>], r)
       IN /\ opState' = [opState EXCEPT ![<<u, 1>>] = f.st]
          /\ result' = [result EXCEPT ![<<u, 1>>] = r]
          /\ artifact' = f.art
          /\ log' = LogIfErr(<<u, 1>>, f.st)
  /\ UNCHANGED <<args, cmd, passed, ndisp, ret>>

cargo_example_return ==
  /\ Running("cargo_example")
  /\ AllJoined
  /\ ret' = "Ok"
  /\ UNCHANGED <<args, artifact, opState, cmd, passed, ndisp, result, log>>

\* --------------------------------------------------------------- run_test
\* A closure that builds both commands up front, so that the emulator can be
\* started while the build still runs.
run_test_start_both(u) ==
  /\ Running("run_test")
  /\ u \in 1 .. Len(examples)
  /\ opState[<<u, 1>>] = "None"
  /\ FreeWorker
  /\ opState' = [opState EXCEPT ![<<u, 1>>] = "Constructed",
                                ![<<u, 2>>] = "Constructed"]
  /\ cmd' = [cmd EXCEPT ![<<u, 1>>] = QuietBuildCommand(examples[u]),
                        ![<<u, 2>>] = QemuCommand(examples[u])]
  /\ UNCHANGED <<args, artifact, passed, ndisp, result, log, ret>>

\* A pool worker starts the closure for examples[u] and builds the
\* ExampleBuild command.
run_test_start(u) ==
  /\ Running("run_test")
  /\ u \in 1 .. Len(examples)
  /\ opState[<<u, 1>>] = "None"
  /\ FreeWorker
  /\ Construct(<<u, 1>>, QuietBuildCommand(examples[u]))
  /\ UNCHANGED <<args, artifact, passed, ndisp, result, log, ret>>

\* A closure that hands the caller's flag to the build as well.
run_test_build_dispatch_overwrite(u) ==
  /\ Running("run_test")
  /\ u \in 1 .. Len(examples)
  /\ Dispatch(<<u, 1>>, overwrite)
  /\ UNCHANGED <<args, artifact, cmd, result, log, ret>>

run_test_build_dispatch(u) ==
  /\ Running("run_test")
  /\ u \in 1 .. Len(examples)
  /\ Dispatch(<<u, 1>>, FALSE)
  /\ UNCHANGED <<args, artifact, cmd, result, log, ret>>

\* The build ends; its error, if any, is logged and the closure goes on to
\* build the Qemu command.
run_test_build_complete(u) ==
  /\ Running("run_test")
  /\ u \in 1 .. Len(examples)
  /\ opState[<<u, 1>>] = "Dispatched"
  /\ \E r \in ProcessResults(<<u, 1>>) :
       LET f == Finish(<<u, 1>>, passed[<<u, 1>>], r)
       IN /\ opState' = [opState EXCEPT ![<<u, 1>>] = f.st,
                                        ![<<u, 2>>] = "Constructed"]
          /\ result' = [result EXCEPT ![<<u, 1>>] = r]
          /\ artifact' = f.art
          /\ log' = LogIfErr(<<u, 1>>, f.st)
  /\ cmd' = [cmd EXCEPT ![<<u, 2>>] = QemuCommand(examples[u])]
  /\ UNCHANGED <<args, passed, ndisp, ret>>

\* A closure that drops the caller's flag: the emulator's output is always
\* compared.
run_test_qemu_dispatch_compare(u) ==
  /\ Running("run_test")
  /\ u \in 1 .. Len(examples)
  /\ Dispatch(<<u, 2>>, FALSE)
  /\ UNCHANGED <<args, artifact, cmd, result, log, ret>>

run_test_qemu_dispatch(u) ==
  /\ Running("run_test")
  /\ u \in 1 .. Len(examples)
  /\ Dispatch(<<u, 2>>, overwrite)
  /\ UNCHANGED <<args, artifact, cmd, result, log, ret>>

run_test_qemu_complete(u) ==
  /\ Running("run_test")
  /\ u \in 1 .. Len(examples)
  /\ opState[<<u, 2>>] = "Dispatched"
  /\ \E r \in ProcessResults(<<u, 2>>) :
       LET f == Finish(<<u, 2>>, passed[<<u, 2>>], r)
       IN /\ opState' = [opState EXCEPT ![<<u, 2>>] = f.st]
          /\ result' = [result EXCEPT ![<<u, 2>>] = r]
          /\ artifact' = f.art
          /\ log' = LogIfErr(<<u, 2>>, f.st)
  /\ UNCHANGED <<args, cmd, passed, ndisp, ret>>

\* A function that reports an error when it was given no example.
run_test_return_err_if_empty ==
  /\ Running("run_test")
  /\ AllJoined
  /\ ret' = IF Len(examples) = 0 THEN "Err" ELSE "Ok"
  /\ UNCHANGED <<args, artifact, opState, cmd, passed, ndisp, result, log>>

run_test_return ==
  /\ Running("run_test")
  /\ AllJoined
  /\ ret' = "Ok"
  /\ UNCHANGED <<args, artifact, opState, cmd, passed, ndisp, result, log>>

\* --------------------------------------------------- build_and_check_size
build_and_check_size_start(u) ==
  /\ Running("build_and_check_size")
  /\ u \in 1 .. Len(examples)
  /\ opState[<<u, 1>>] = "None"
  /\ FreeWorker
  /\ Construct(<<u, 1>>, QuietBuildCommand(examples[u]))
  /\ UNCHANGED <<args, artifact, passed, ndisp, result, log, ret>>

build_and_check_size_build_dispatch(u) ==
  /\ Running("build_and_check_size")
  /\ u \in 1 .. Len(examples)
  /\ Dispatch(<<u, 1>>, FALSE)
  /\ UNCHANGED <<args, artifact, cmd, result, log, ret>>

build_and_check_size_build_complete(u) ==
  /\ Running("build_and_check_size")
  /\ u \in 1 .. Len(examples)
  /\ opState[<<u, 1>>] = "Dispatched"
  /\ \E r \in ProcessResults(<<u, 1>>) :
       LET f == Finish(<<u, 1>>, passed[<<u, 1>>], r)
       IN /\ opState' = [opState EXCEPT ![<<u, 1>>] = f.st,
                                        ![<<u, 2>>] = "Constructed"]
          /\ result' = [result EXCEPT ![<<u, 1>>] = r]
          /\ artifact' = f.art
          /\ log' = LogIfErr(<<u, 1>>, f.st)
  /\ cmd' = [cmd EXCEPT ![<<u, 2>>] = ExampleSizeCommand(examples[u])]
  /\ UNCHANGED <<args, passed, ndisp, ret>>

build_and_check_size_size_dispatch(u) ==
  /\ Running("build_and_check_size")
  /\ u \in 1 .. Len(examples)
  /\ Dispatch(<<u, 2>>, FALSE)
  /\ UNCHANGED <<args, artifact, cmd, result, log, ret>>

build_and_check_size_size_complete(u) ==
  /\ Running("build_and_check_size")
  /\ u \in 1 .. Len(examples)
  /\ opState[<<u, 2>>] = "Dispatched"
  /\ \E r \in ProcessResults(<<u, 2>>) :
       LET f == Finish(<<u, 2>>, passed[<<u, 2>>], r)
       IN /\ opState' = [opState EXCEPT ![<<u, 2>>] = f.st]
          /\ result' = [result EXCEPT ![<<u, 2>>] = r]
          /\ artifact' = f.art
          /\ log' = LogIfErr(<<u, 2>>, f.st)
  /\ UNCHANGED <<args, cmd, passed, ndisp, ret>>

build_and_check_size_return ==
  /\ Running("build_and_check_size")
  /\ AllJoined
  /\ ret' = "Ok"
  /\ UNCHANGED <<args, artifact, opState, cmd, passed, ndisp, result, log>>

\* ------------------------------------------------------------- cargo_test
\* The package tested as unit u: the selected one, or the u-th of the list.
PackageOf(u) == IF package # None THEN package ELSE Packages[u]

\* Entry: the selected package's command, or the first iteration of the loop.
cargo_test_start ==
  /\ Running("cargo_test")
  /\ opState[<<1, 1>>] = "None"
  /\ Construct(<<1, 1>>, match_package(PackageOf(1), backend))
  /\ UNCHANGED <<args, artifact, passed, ndisp, result, log, ret>>

cargo_test_dispatch(u) ==
  /\ Running("cargo_test")
  /\ u \in 1 .. NumUnits
  /\ Dispatch(<<u, 1>>, FALSE)
  /\ UNCHANGED <<args, artifact, cmd, result, log, ret>>

\* A function that returns Ok(()) whatever command_parser returned.
Swallow(st) == "Ok"

\* `command_parser(..)?; Ok(())`: the error of command_parser is returned.
Propagate(st) == IF st \in Failed THEN "Err" ELSE "Ok"

\* One package selected: `command_parser(globals, &cmd, false)?; Ok(())`.
cargo_test_one_complete ==
  /\ Running("cargo_test")
  /\ package # None
  /\ opState[<<1, 1>>] = "Dispatched"
  /\ \E r \in ProcessResults(<<1, 1>>) :
       LET f == Finish(<<1, 1>>, passed[<<1, 1>>], r)
       IN /\ opState' = [opState EXCEPT ![<<1, 1>>] = f.st]
          /\ result' = [result EXCEPT ![<<1, 1>>] = r]
          /\ artifact' = f.art
          /\ ret' = Propagate(f.st)
  /\ UNCHANGED <<args, cmd, passed, ndisp, log>>

\* The same loop, leaving at the first failed test.
LoopNextUntilErr(u, st) == IF u < NumPackages /\ st \notin Failed THEN u + 1 ELSE 0

\* What the loop does after the test of package u ended with outcome st: the
\* next iteration if there is one (0: the loop is over).
LoopNext(u, st) == IF u < NumPackages THEN u + 1 ELSE 0

\* No package selected: one iteration of the loop over all packages ends; the
\* error is pushed to error_messages and logged, then the loop goes on.
cargo_test_all_complete(u) ==
  /\ Running("cargo_test")
  /\ package = None
  /\ u \in 1 .. NumPackages
  /\ opState[<<u, 1>>] = "Dispatched"
  /\ \E r \in ProcessResults(<<u, 1>>) :
       LET f == Finish(<<u, 1>>, passed[<<u, 1>>], r)
           n == LoopNext(u, f.st)
       IN /\ opState' = IF n = 0
                        THEN [opState EXCEPT ![<<u, 1>>] = f.st]
                        ELSE [opState EXCEPT ![<<u, 1>>] = f.st,
                                             ![<<n, 1>>] = "Constructed"]
          /\ cmd' = IF n = 0 THEN cmd
                    ELSE [cmd EXCEPT ![<<n, 1>>] = match_package(Packages[n], backend)]
          /\ result' = [result EXCEPT ![<<u, 1>>] = r]
          /\ artifact' = f.art
          /\ log' = LogIfErr(<<u, 1>>, f.st)
          /\ ret' = IF n = 0 THEN "Ok" ELSE ret
  /\ UNCHANGED <<args, passed, ndisp>>

\* ------------------------------------------- the single-operation commands
\* `let command = ...` / the struct literal passed to command_parser.
SingleStart(f, c) ==
  /\ Running(f)
  /\ opState[<<1, 1>>] = "None"
  /\ Construct(<<1, 1>>, c)
  /\ UNCHANGED <<args, artifact, passed, ndisp, result, log, ret>>

\* `command_parser(globals, &command, false)`
SingleDispatch(f) ==
  /\ Running(f)
  /\ Dispatch(<<1, 1>>, FALSE)
  /\ UNCHANGED <<args, artifact, cmd, result, log, ret>>

\* `...?; Ok(())`
SingleComplete(f) ==
  /\ Running(f)
  /\ opState[<<1, 1>>] = "Dispatched"
  /\ \E r \in ProcessResults(<<1, 1>>) :
       LET o == Finish(<<1, 1>>, passed[<<1, 1>>], r)
       IN /\ opState' = [opState EXCEPT ![<<1, 1>>] = o.st]
          /\ result' = [result EXCEPT ![<<1, 1>>] = r]
          /\ artifact' = o.art
          /\ ret' = Propagate(o.st)
  /\ UNCHANGED <<args, cmd, passed, ndisp, log>>

cargo_start == SingleStart("cargo", CheckOrBuildCommand)
cargo_dispatch == SingleDispatch("cargo")
cargo_complete == SingleComplete("cargo")

cargo_clippy_start == SingleStart("cargo_clippy", ClippyCommand)
cargo_clippy_dispatch == SingleDispatch("cargo_clippy")
cargo_clippy_complete == SingleComplete("cargo_clippy")

cargo_format_start == SingleStart("cargo_format", FormatCommand)
cargo_format_dispatch == SingleDispatch("cargo_format")
cargo_format_complete == SingleComplete("cargo_format")

cargo_doc_start == SingleStart("cargo_doc", DocCommand)
cargo_doc_dispatch == SingleDispatch("cargo_doc")
cargo_doc_complete == SingleComplete("cargo_doc")

cargo_book_start == SingleStart("cargo_book", BookCommand)
cargo_book_dispatch == SingleDispatch("cargo_book")
cargo_book_complete == SingleComplete("cargo_book")

\* ------------------------------------------------------------------ Next
FanOutNext ==
  \/ \E u \in Units : cargo_example_start(u)
  \/ \E u \in Units : cargo_example_dispatch(u)
  \/ \E u \in Units : cargo_example_complete(u)
  \/ cargo_example_return
  \/ \E u \in Units : run_test_start(u)
  \/ \E u \in Units : run_test_build_dispatch(u)
  \/ \E u \in Units : run_test_build_complete(u)
  \/ \E u \in Units : run_test_qemu_dispatch(u)
  \/ \E u \in Units : run_test_qemu_complete(u)
  \/ run_test_return
  \/ \E u \in Units : build_and_check_size_start(u)
  \/ \E u \in Units : build_and_check_size_build_dispatch(u)
  \/ \E u \in Units : build_and_check_size_build_complete(u)
  \/ \E u \in Units : build_and_check_size_size_dispatch(u)
  \/ \E u \in Units : build_and_check_size_size_complete(u)
  \/ build_and_check_size_return

PackageNext ==
  \/ cargo_test_start
  \/ \E u \in Units : cargo_test_dispatch(u)
  \/ cargo_test_one_complete
  \/ \E u \in Units : cargo_test_all_complete(u)

SingleNext ==
  \/ cargo_start
  \/ cargo_dispatch
  \/ cargo_complete
  \/ cargo_clippy_start
  \/ cargo_clippy_dispatch
  \/ cargo_clippy_complete
  \/ cargo_format_start
  \/ cargo_format_dispatch
  \/ cargo_format_complete
  \/ cargo_doc_start
  \/ cargo_doc_dispatch
  \/ cargo_doc_complete
  \/ cargo_book_start
  \/ cargo_book_dispatch
  \/ cargo_book_complete

Next == FanOutNext \/ PackageNext \/ SingleNext

Spec == Init /\ [][Next]_vars

\* ------------------------------------------------------- the same call twice
\* The fan-out is called a second time with the same arguments and the same
\* expected-output files as the first time; the processes of unit d (of no
\* unit if d = 0) are free to end differently.
call_again(d) ==
  /\ fn \in FanOutFns
  /\ ret # "none"
  /\ ~prev.valid
  /\ d \in 0 .. Len(examples)
  /\ prev' = [valid |-> TRUE, dev |-> d, opState |-> opState, cmd |-> cmd,
              passed |-> passed, ndisp |-> ndisp, result |-> result,
              log |-> log, ret |-> ret, artifact |-> artifact]
  /\ artifact' = artifact0
  /\ opState' = NoOps
  /\ cmd' = NoCmds
  /\ passed' = NoFlags
  /\ ndisp' = NoCounts
  /\ result' = NoResults
  /\ log' = {}
  /\ ret' = "none"
  /\ UNCHANGED <<fn, operation, backend, package, check_only, examples,
                 overwrite, artifact0, num_threads, history>>

\* The backend changes no step of a call, and a store with the same content
\* under every name already has matching, differing and missing files.
InitPair ==
  /\ Init
  /\ fn \in FanOutFns
  /\ backend = "Thumbv7"
  /\ artifact \in UniformStores

NextPair == FanOutNext \/ \E d \in 0 .. MaxExamples : call_again(d)

SpecPair == InitPair /\ [][NextPair]_vars

\* ------------------------------------------- run_test, call after call
\* What a call of run_test on one example did: the flag it was given, what
\* the emulator printed, the outcome of the Qemu operation and the expected
\* output of the example before and after the call.
Summary ==
  [overwrite |-> overwrite, out |-> result[<<1, 2>>], st |-> opState[<<1, 2>>],
   before |-> artifact0[examples[1]], after |-> artifact[examples[1]]]

\* run_test has returned and is called again on the same example, with flag
\* ow; the expected-output files stay as the last call left them.
call_next(ow) ==
  /\ fn = "run_test"
  /\ ret # "none"
  /\ Len(history) < MaxCalls - 1
  /\ history' = Append(history, Summary)
  /\ overwrite' = ow
  /\ artifact0' = artifact
  /\ opState' = NoOps
  /\ cmd' = NoCmds
  /\ passed' = NoFlags
  /\ ndisp' = NoCounts
  /\ result' = NoResults
  /\ log' = {}
  /\ ret' = "none"
  /\ UNCHANGED <<fn, operation, backend, package, check_only, examples,
                 artifact, prev, num_threads>>

\* The first call: one example, no expected-output file yet.
InitRoundTrip ==
  /\ Init
  /\ fn = "run_test"
  /\ Len(examples) = 1
  /\ backend = "Thumbv7"
  /\ artifact = [n \in Names |-> NoFile]

NextRoundTrip ==
  \/ \E u \in Units : run_test_start(u)
  \/ \E u \in Units : run_test_build_dispatch(u)
  \/ \E u \in Units : run_test_build_complete(u)
  \/ \E u \in Units : run_test_qemu_dispatch(u)
  \/ \E u \in Units : run_test_qemu_complete(u)
  \/ run_test_return
  \/ \E ow \in BOOLEAN : call_next(ow)

SpecRoundTrip == InitRoundTrip /\ [][NextRoundTrip]_vars

\* -------------------------------------------------- pools of every size
\* A fan-out on a pool of 1 .. PoolSize workers.  Every process ends and the
\* pool keeps scheduling: a step that can be taken is eventually taken.
InitPool ==
  /\ fn \in FanOutFns
  /\ operation \in IF fn = "cargo_example" THEN {"Check", "Build"} ELSE {"Build"}
  /\ examples \in ExampleLists
  /\ package = None
  /\ check_only = FALSE
  /\ overwrite \in IF fn = "run_test" THEN BOOLEAN ELSE {FALSE}
  /\ backend = "Thumbv7"
  /\ num_threads \in 1 .. PoolSize
  /\ history = <<>>
  /\ artifact \in UniformStores
  /\ artifact0 = artifact
  /\ prev = NoPrev
  /\ opState = NoOps
  /\ cmd = NoCmds
  /\ passed = NoFlags
  /\ ndisp = NoCounts
  /\ result = NoResults
  /\ log = {}
  /\ ret = "none"

SpecPool == InitPool /\ [][FanOutNext]_vars /\ WF_vars(FanOutNext)

\* ================================================================ claims
Returned == ret # "none"
Composite == fn \in CompositeFns
FanOut == fn \in FanOutFns
ExampleUnits == 1 .. Len(examples)
WasDispatched(k) == ndisp[k] > 0
InFlight(k) == opState[k] = "Dispatched"
FailedOps == {k \in Keys : opState[k] \in Failed}
Batch == FanOut \/ (fn = "cargo_test" /\ package = None)

\* C1: in run_test and build_and_check_size, the Qemu / ExampleSize operation
\* of an example whose ExampleBuild failed is never dispatched.
C1_DependentSkippedAfterFailedBuild ==
  Composite =>
    \A u \in ExampleUnits :
      opState[<<u, 1>>] \in Failed => ~WasDispatched(<<u, 2>>)

\* C2: the status a batch returns is success if and only if every operation
\* dispatched in the batch succeeded.
C2_StatusOkIffAllSucceeded ==
  (Batch /\ Returned) => (ret = "Ok" <=> FailedOps = {})

\* C3: a fan-out returns only after every unit has reached a terminal state,
\* every example having been dispatched, whichever units failed.
C3_ReturnsOnlyAfterEveryUnit ==
  (FanOut /\ Returned) =>
    \A u \in ExampleUnits :
      /\ WasDispatched(<<u, 1>>)
      /\ opState[<<u, 1>>] \in Terminal
      /\ Composite => WasDispatched(<<u, 2>>) /\ opState[<<u, 2>>] \in Terminal

C3_Witness ==
  /\ FanOut /\ Returned
  /\ Len(examples) >= 2
  /\ opState[<<1, 1>>] \in Failed
  /\ \A s \in Stages : opState[<<2, s>>] \in {"None", "Succeeded"}
  /\ opState[<<2, 1>>] = "Succeeded"

\* C4: when the build of an example fails in a composite action, the one
\* failure recorded for that example is the build failure: the dependent
\* step adds none.
C4_OnlyTheBuildFailureRecorded ==
  Composite =>
    \A u \in ExampleUnits :
      opState[<<u, 1>>] \in Failed =>
        {e \in log : e.unit = u} \subseteq {ErrorOf(<<u, 1>>, cmd[<<u, 1>>], opState[<<u, 1>>])}

\* C6: cargo_test without a package tests each package of the list exactly
\* once, one after the other in the order of the list, and goes on after a
\* failed test: it returns only when all six were tested.
C6_AllPackagesInOrder ==
  (fn = "cargo_test" /\ package = None) =>
    /\ \A u \in 1 .. NumPackages :
         /\ ndisp[<<u, 1>>] <= 1
         /\ opState[<<u, 1>>] # "None" => cmd[<<u, 1>>].package = Packages[u]
         /\ opState[<<u, 1>>] # "None" =>
              \A v \in 1 .. u - 1 : opState[<<v, 1>>] \in Terminal
    /\ Returned =>
         \A u \in 1 .. NumPackages :
           ndisp[<<u, 1>>] = 1 /\ opState[<<u, 1>>] \in Terminal

C6_Witness ==
  /\ fn = "cargo_test" /\ package = None /\ Returned
  /\ opState[<<2, 1>>] \in Failed
  /\ opState[<<NumPackages, 1>>] = "Succeeded"

\* C7: the Qemu / ExampleSize operation of an example is dispatched only
\* after the ExampleBuild operation of the same example has completed.
C7_DependentAfterOwnBuild ==
  Composite =>
    \A u \in ExampleUnits :
      WasDispatched(<<u, 2>>) => opState[<<u, 1>>] \in Terminal

\* Operations of different examples interleave: the dependent operation of
\* the second example runs while the build of the first is still running.
C7_Witness ==
  /\ Composite
  /\ Len(examples) >= 2
  /\ InFlight(<<2, 2>>)
  /\ InFlight(<<1, 1>>)

\* C8: when a batch has finished, the reported failures are exactly the
\* operations that failed, each with its cause.
C8_EveryFailureReported ==
  (Batch /\ Returned) =>
    log = {ErrorOf(k, cmd[k], opState[k]) : k \in FailedOps}

C8_Witness ==
  /\ FanOut /\ Returned
  /\ Cardinality(FailedOps) >= 2
  /\ \E k1 \in FailedOps, k2 \in FailedOps : k1[1] # k2[1]

\* C9: a fan-out over N example names runs one unit per name: when it
\* returns there are exactly N per-example results, the u-th one for the
\* u-th name, each produced by a single invocation.
C9_OneResultPerExample ==
  (FanOut /\ Returned) =>
    /\ Cardinality({u \in Units : opState[<<u, 1>>] \in Terminal}) = Len(examples)
    /\ \A u \in ExampleUnits :
         /\ ndisp[<<u, 1>>] = 1
         /\ cmd[<<u, 1>>].example = examples[u]
         /\ result[<<u, 1>>] # None

C9_Witness ==
  /\ FanOut /\ Returned
  /\ Len(examples) = MaxExamples
  /\ examples[1] # examples[2]

\* C10: an operation goes Constructed -> Dispatched -> Succeeded, ToolFailed
\* or MismatchFailed; it is dispatched once, and nothing leaves a terminal
\* state.
C10_DispatchedOnceNoRetry ==
  [][\A k \in Keys :
       /\ ndisp'[k] <= 1
       /\ opState[k] \in Terminal => opState'[k] = opState[k] /\ ndisp'[k] = ndisp[k]
       /\ opState'[k] # opState[k] =>
            \/ opState[k] = "None" /\ opState'[k] = "Constructed"
            \/ opState[k] = "Constructed" /\ opState'[k] = "Dispatched" /\ ndisp'[k] = ndisp[k] + 1
            \/ opState[k] = "Dispatched" /\ opState'[k] \in Terminal]_vars

C10_Witness ==
  /\ Returned
  /\ \E k \in Keys : opState[k] = "ToolFailed" /\ ndisp[k] = 1
  /\ \E k \in Keys : opState[k] = "MismatchFailed" /\ ndisp[k] = 1

\* C5: of two batches over the same examples that differ only in how the
\* processes of one example end, every other example has the same operations
\* dispatched, with the same outcomes and the same reported failures.
C5_SiblingsUnaffected ==
  (prev.valid /\ Returned) =>
    \A u \in ExampleUnits \ {prev.dev} :
      /\ \A s \in Stages :
           /\ opState[<<u, s>>] = prev.opState[<<u, s>>]
           /\ ndisp[<<u, s>>] = prev.ndisp[<<u, s>>]
           /\ cmd[<<u, s>>] = prev.cmd[<<u, s>>]
           /\ passed[<<u, s>>] = prev.passed[<<u, s>>]
      /\ {e \in log : e.unit = u} = {e \in prev.log : e.unit = u}

\* The deviating example failed in one batch and not in the other, next to a
\* sibling of the same name.
C5_Witness ==
  /\ prev.valid /\ Returned
  /\ Len(examples) >= 2
  /\ prev.dev = 1
  /\ examples[1] = examples[2]
  /\ overwrite
  /\ prev.opState[<<1, 1>>] = "Succeeded" /\ prev.opState[<<1, 2>>] = "Succeeded"
  /\ opState[<<1, 1>>] \in Failed
  /\ opState[<<2, 2>>] = "Succeeded"

\* C11: two runs of a fan-out with the same example names, the same result
\* of every process and overwrite = false end with the same outcome of every
\* operation, the same reported failures and the same status, however the
\* units of either run are scheduled.
C11_SameInputsSameResults ==
  (prev.valid /\ prev.dev = 0 /\ ~overwrite /\ Returned) =>
    /\ opState = prev.opState
    /\ log = prev.log
    /\ ret = prev.ret
    /\ artifact = prev.artifact

C11_Witness ==
  /\ prev.valid /\ prev.dev = 0 /\ ~overwrite /\ Returned
  /\ fn = "run_test"
  /\ Len(examples) >= 2
  /\ examples[1] = examples[2]
  /\ opState[<<1, 2>>] = "MismatchFailed"
  /\ opState[<<2, 2>>] = "Succeeded"

\* The emulate operations in flight that read or write the expected output
\* of example name n.
Touching(n) ==
  {k \in Keys : InFlight(k) /\ cmd[k].kind = "Qemu" /\ cmd[k].example = n}

DistinctNames == \A u, v \in ExampleUnits : u # v => examples[u] # examples[v]

\* C12 as stated: for every example list given to run_test, also one in
\* which a name occurs twice, at most one emulate operation in flight
\* touches the expected output of a given name.
C12_OneEmulatePerArtifact ==
  fn = "run_test" => \A n \in Names : Cardinality(Touching(n)) <= 1

\* C12 as amended: for every example list given to run_test whose names are
\* pairwise distinct, at most one emulate operation in flight touches the
\* expected output of a given name.
C12_OneEmulatePerArtifactIfDistinct ==
  (fn = "run_test" /\ DistinctNames) =>
    \A n \in Names : Cardinality(Touching(n)) <= 1

\* Two emulate operations of different names are in flight together.
C12_Witness ==
  /\ fn = "run_test" /\ DistinctNames
  /\ Len(examples) >= 2
  /\ InFlight(<<1, 2>>) /\ InFlight(<<2, 2>>)

\* C13: when every process ends, every fan-out ends: each unit is run to its
\* end (every operation of it dispatched and terminal, none dropped) and the
\* function returns.
C13_BatchTerminates ==
  FanOut ~>
    /\ Returned
    /\ \A u \in ExampleUnits :
         /\ UnitDone(u)
         /\ WasDispatched(<<u, 1>>)
         /\ Composite => WasDispatched(<<u, 2>>)

\* A batch on one worker returned: its second unit had to wait for the
\* first, which failed.
C13_Witness ==
  /\ FanOut /\ Returned
  /\ num_threads = 1
  /\ Len(examples) = MaxExamples
  /\ opState[<<1, 1>>] \in Failed
  /\ UnitDone(MaxExamples)

\* C14: the processes in flight are never more than the workers of the pool;
\* the closures running are never more than the workers, so a worker takes a
\* pending unit only when its closure has ended; and a closure has at most
\* one process in flight.
C14_BoundedPool ==
  FanOut =>
    /\ Cardinality({k \in Keys : InFlight(k)}) <= num_threads
    /\ Cardinality({u \in ExampleUnits : UnitRunning(u)}) <= num_threads
    /\ \A u \in ExampleUnits : ~(InFlight(<<u, 1>>) /\ InFlight(<<u, 2>>))

\* The pool is full: fewer workers than units, every worker has a process in
\* flight, and a unit is still pending.
C14_Witness ==
  /\ FanOut
  /\ num_threads < Len(examples)
  /\ Cardinality({k \in Keys : InFlight(k)}) = num_threads
  /\ \E u \in ExampleUnits : opState[<<u, 1>>] = "None"

\* The calls of a series that have returned, oldest first.
Calls == IF Returned THEN Append(history, Summary) ELSE history

\* C15: for one example with no expected output yet, run_test with overwrite
\* = true stores exactly what the emulator printed and the Qemu operation
\* succeeds; a next call with overwrite = false and the same output
\* succeeds and leaves the file as it is; a next call with overwrite = false
\* and another output ends in a mismatch failure and leaves the file as it is.
C15_OverwriteRoundTrip ==
  (fn = "run_test" /\ Len(examples) = 1 /\ Len(Calls) >= 1
     /\ Calls[1].overwrite /\ Calls[1].before = NoFile
     /\ Calls[1].out \in Contents) =>
    /\ Calls[1].st = "Succeeded"
    /\ Calls[1].after = Calls[1].out
    /\ (Len(Calls) >= 2 /\ ~Calls[2].overwrite /\ Calls[2].out = Calls[1].out) =>
         /\ Calls[2].st = "Succeeded"
         /\ Calls[2].after = Calls[1].out
         /\ (Len(Calls) >= 3 /\ ~Calls[3].overwrite
               /\ Calls[3].out \in Contents \ {Calls[1].out}) =>
              /\ Calls[3].st = "MismatchFailed"
              /\ Calls[3].after = Calls[1].out

\* The three calls of the round trip have returned.
C15_Witness ==
  /\ fn = "run_test" /\ Len(examples) = 1 /\ Len(Calls) = 3
  /\ Calls[1].overwrite /\ Calls[1].before = NoFile /\ Calls[1].out \in Contents
  /\ ~Calls[2].overwrite /\ Calls[2].out = Calls[1].out
  /\ ~Calls[3].overwrite /\ Calls[3].out \in Contents \ {Calls[1].out}
  /\ Calls[3].st = "MismatchFailed"

\* The flags backend b contributes: its target flag and its rtic feature.
BackendFlags(b) == {to_target(b), to_rtic_feature(b)}

FlagsOf(c) == {c.features[i] : i \in 1 .. Len(c.features)}

Constructed == {k \in Keys : opState[k] # "None"}

\* C16: every command a fan-out constructs for backend b has the target of b
\* and a feature set made of b's target flag and b's rtic feature only: no
\* flag of another backend is in it, and target and feature set are the same
\* for every unit of the batch.
C16_TargetAndFeaturesOfBackend ==
  FanOut =>
    \A k \in Constructed :
      /\ cmd[k].target = to_target(backend)
      /\ FlagsOf(cmd[k]) = BackendFlags(backend)
      /\ \A b \in Backends \ {backend} : FlagsOf(cmd[k]) \cap BackendFlags(b) = {}
      /\ \A j \in Constructed :
           cmd[j].target = cmd[k].target /\ cmd[j].features = cmd[k].features

\* A composite batch for Thumbv6 has constructed both commands of two units.
C16_Witness ==
  /\ Composite
  /\ backend = "Thumbv6"
  /\ Len(examples) >= 2
  /\ \A u \in {1, 2}, s \in Stages : <<u, s>> \in Constructed

\* The calls that run one operation: the single-operation functions, and
\* cargo_test with a package.
Single == fn \in SingleFns \/ (fn = "cargo_test" /\ package # None)

\* C18: a single-operation command dispatches exactly one operation, and it
\* returns an error if and only if that operation failed.
C18_SingleOperationPropagates ==
  Single =>
    /\ \A k \in Keys \ {<<1, 1>>} : opState[k] = "None" /\ ndisp[k] = 0
    /\ ndisp[<<1, 1>>] <= 1
    /\ Returned =>
         /\ ndisp[<<1, 1>>] = 1
         /\ opState[<<1, 1>>] \in Terminal
         /\ ret = "Err" <=> opState[<<1, 1>>] \in Failed
         /\ ret = "Ok" <=> opState[<<1, 1>>] = "Succeeded"

\* cargo_test with a package returned the error of its one test.
C18_Witness ==
  /\ fn = "cargo_test" /\ package # None
  /\ ret = "Err"
  /\ opState[<<1, 1>>] = "ToolFailed"
  /\ cmd[<<1, 1>>].package = package

\* C19: the overwrite flag of the caller is handed to the Qemu operations
\* only: every other operation of every function is dispatched with
\* overwrite = false, the build of run_test included.
C19_OverwriteOnlyToQemu ==
  \A k \in Keys :
    WasDispatched(k) =>
      passed[k] = (IF cmd[k].kind = "Qemu" THEN overwrite ELSE FALSE)

\* run_test was called with overwrite = true: the build ran without the flag
\* and the emulator with it.
C19_Witness ==
  /\ fn = "run_test" /\ overwrite
  /\ WasDispatched(<<1, 1>>) /\ cmd[<<1, 1>>].kind = "ExampleBuild"
  /\ ~passed[<<1, 1>>]
  /\ WasDispatched(<<1, 2>>) /\ cmd[<<1, 2>>].kind = "Qemu"
  /\ passed[<<1, 2>>]

\* The return of the fan-out that is running.
FanOutReturn ==
  cargo_example_return \/ run_test_return \/ build_and_check_size_return

\* C20: a fan-out over no example constructs and dispatches no operation,
\* leaves every expected-output file as it was, logs nothing, can return at
\* once and returns Ok.
C20_EmptyListIsNoOp ==
  (FanOut /\ Len(examples) = 0) =>
    /\ \A k \in Keys : opState[k] = "None" /\ ndisp[k] = 0
    /\ artifact = artifact0
    /\ log = {}
    /\ ~Returned => ENABLED FanOutReturn
    /\ Returned => ret = "Ok"

\* run_test returned from an empty list with overwrite = true, next to
\* expected-output files.
C20_Witness ==
  /\ fn = "run_test" /\ Len(examples) = 0 /\ overwrite
  /\ ret = "Ok"
  /\ \E n \in Names : artifact[n] \in Contents

====
